---- MODULE Spec2Model ----
(***************************************************************************)
(* A model of experiments/DINO_signal.py: the multi-crop forward wrapper,  *)
(* the DINO loss with its center, and the training loop of run().          *)
(*                                                                         *)
(* Four groups of variables, one per part of the program; a specification  *)
(* drives one group and leaves the others at rest:                         *)
(*   SpecLoss  DINOLoss.forward, the (teacher, student) pair loop          *)
(*   SpecCrop  MultiCropWrapper.forward                                    *)
(*   SpecDist  the per-step loss / center update on cooperating processes  *)
(*   SpecRun   run(): epochs, schedules, optimizer, EMA, checkpoints       *)
(* Tensors are sequences of rows; a row carries one feature (the           *)
(* operations modelled are elementwise along the feature axis).            *)
(***************************************************************************)
EXTENDS Integers, Sequences, FiniteSets, TLC

VARIABLES
    \* DINOLoss.forward, one call
    ncrops, s_rows, t_rows, student_out, teacher_out, terms, n_loss_terms, lpc,
    \* MultiCropWrapper.forward, one call
    x, groups, output, cpc,
    \* run(): the training loop of one process
    no_epoches, steps_per_epoch, epoch, batch_idx, it, rpc, student, teacher,
    train_loss, lowest_train_loss, saved, means, n_opt, n_ema,
    \* the cooperating processes: each one's loop position, its DINOLoss, the all-reduce
    world_size, d_no_epoches, d_steps_per_epoch, d_outputs, dpc, d_epoch, d_batch_idx,
    teacher_output, centered, center, n_all_reduce, n_center, coll, buf, readers

dist_vars == <<world_size, d_no_epoches, d_steps_per_epoch, d_outputs, dpc, d_epoch, d_batch_idx,
               teacher_output, centered, center, n_all_reduce, n_center, coll, buf, readers>>
run_vars == <<no_epoches, steps_per_epoch, epoch, batch_idx, it, rpc, student, teacher,
              train_loss, lowest_train_loss, saved, means, n_opt, n_ema>>
crop_vars == <<x, groups, output, cpc>>
loss_vars == <<ncrops, s_rows, t_rows, student_out, teacher_out, terms, n_loss_terms, lpc>>
vars == <<loss_vars, crop_vars, run_vars, dist_vars>>

\* the variables a part of the program leaves alone
not_loss == <<crop_vars, run_vars, dist_vars>>
not_crop == <<loss_vars, run_vars, dist_vars>>
not_run  == <<loss_vars, crop_vars, dist_vars>>
not_dist == <<loss_vars, crop_vars, run_vars>>

(***************************************************************************)
(* Bounds of the model.                                                    *)
(***************************************************************************)
\* largest ncrops given to DINOLoss
MaxN == 3
\* largest number of rows of student_output / teacher_output
MaxRows == 6
\* longest crop list given to MultiCropWrapper.forward
MaxCrops == 3
\* crop lengths (shape[-1]) range over 1..MaxLen
MaxLen == 2
\* largest batch size of one crop
MaxBatch == 2
\* no_epoches ranges over 1..MaxEpochs
MaxEpochs == 3
\* len(train_dataloader) ranges over 1..MaxStepsPerEpoch
MaxStepsPerEpoch == 2
\* dist.get_world_size() ranges over 1..WorldSize
WorldSize == 2
\* the rows of one crop in the distributed runs
DistBatch == 1
\* the distributed runs that carry tensor values have schedules of at most DistSchedule
\* entries: no_epoches * len(train_dataloader) <= DistSchedule
DistSchedule == 3

(***************************************************************************)
(* DINOLoss.forward: chunking and the pair loop.                           *)
(***************************************************************************)
\* torch.Tensor.chunk(n) along dim 0, as the sequence of the chunks' row counts:
\* chunks of ceil(rows / n) rows, the last one smaller, fewer than n of them
\* when rows does not fill n chunks.
chunk(rows, n) ==
    LET split == (rows + n - 1) \div n
        cnt   == IF rows = 0 THEN 1 ELSE (rows + split - 1) \div split
    IN  [i \in 1..cnt |-> IF i < cnt THEN split ELSE rows - split * (cnt - 1)]

\* Broadcasting of q (a rows) against student_out[v] (b rows) in -q * log_softmax(..)
Broadcastable(a, b) == a = b \/ a = 1 \/ b = 1

\* a plausible slip: no view is skipped
SameViewNever(v, iq) == FALSE

\* a plausible slip: the skip tests the student index against the first view only
SameViewFirst(v, iq) == v = 0

\* line 180: the pair is skipped when student and teacher operate on the same view
SameView(v, iq) == v = iq

\* The double loop of lines 178-185, flattened: k = iq * len(student_out) + v.
\* Yields the pairs that contributed a term, in order, and whether the loop
\* ran to its end (ok) or a term's shapes did not broadcast.
pair_loop[tch \in Seq(Nat), stu \in Seq(Nat), k \in Nat, acc \in Seq(Nat \X Nat)] ==
    IF k = Len(tch) * Len(stu)
    THEN [terms |-> acc, ok |-> TRUE]
    ELSE LET iq == k \div Len(stu)
             v  == k % Len(stu)
         IN  IF SameView(v, iq)
             THEN pair_loop[tch, stu, k + 1, acc]
             ELSE IF ~Broadcastable(tch[iq + 1], stu[v + 1])
                  THEN [terms |-> acc, ok |-> FALSE]
                  ELSE pair_loop[tch, stu, k + 1, Append(acc, <<iq, v>>)]

PairLoop(tch, stu, k, acc) == pair_loop[tch, stu, k, acc]

RestLoss ==
    /\ ncrops = 0 /\ s_rows = 0 /\ t_rows = 0
    /\ student_out = <<>> /\ teacher_out = <<>> /\ terms = <<>>
    /\ n_loss_terms = 0 /\ lpc = "rest"

InitLoss ==
    /\ ncrops \in 0..MaxN
    /\ s_rows \in 1..MaxRows
    /\ t_rows \in 1..MaxRows
    /\ student_out = <<>>
    /\ teacher_out = <<>>
    /\ terms = <<>>
    /\ n_loss_terms = 0
    /\ lpc = "init"

\* DINOLoss.forward up to the division of line 186.
LossForward ==
    /\ lpc = "init"
    /\ IF ncrops <= 0
       THEN \* chunk() refuses a chunk count that is not positive
            /\ lpc' = "RuntimeError"
            /\ UNCHANGED <<student_out, teacher_out, terms, n_loss_terms>>
       ELSE LET so == chunk(s_rows, ncrops)
                to == chunk(t_rows, 2)
                r  == PairLoop(to, so, 0, <<>>)
            IN  /\ student_out' = so
                /\ teacher_out' = to
                /\ terms' = r.terms
                /\ n_loss_terms' = Len(r.terms)
                /\ lpc' = IF ~r.ok THEN "RuntimeError"
                          ELSE IF Len(r.terms) = 0 THEN "ZeroDivisionError"
                          ELSE "returned"
    /\ UNCHANGED <<ncrops, s_rows, t_rows>>
    /\ UNCHANGED not_loss

NextLoss == LossForward

(***************************************************************************)
(* Properties of the pair loop.                                            *)
(***************************************************************************)
\* the cross-view pairs for N student chunks and 2 teacher chunks
CrossViewPairs(N) == {<<iq, v>> : iq \in 0..1, v \in 0..(N - 1)} \ {<<i, i>> : i \in 0..1}

\* student_output holds ncrops crops of b rows, teacher_output the 2 global crops of b rows
UnderContract == \E b \in 1..MaxRows : s_rows = ncrops * b /\ t_rows = 2 * b

\* C1: for every N >= 2, when the student output splits into N chunks and the teacher
\* output into 2, the pairs that contribute a loss term are exactly the (iq, v) with
\* iq in {0,1}, v in 0..N-1, v # iq, each once, and n_loss_terms = 2N - 2; a call on
\* N crops of one batch size and the 2 global crops always gets there.
C1_SameViewExclusion ==
    /\ (lpc = "returned" /\ ncrops >= 2 /\ Len(student_out) = ncrops /\ Len(teacher_out) = 2)
         => /\ {terms[i] : i \in DOMAIN terms} = CrossViewPairs(ncrops)
            /\ Len(terms) = Cardinality(CrossViewPairs(ncrops))
            /\ n_loss_terms = 2 * ncrops - 2
    /\ (lpc # "init" /\ ncrops >= 2 /\ UnderContract)
         => /\ lpc = "returned"
            /\ Len(student_out) = ncrops
            /\ Len(teacher_out) = 2

\* C1 witness: three crops of two rows against the two global crops: 4 pairs
C1_Witness ==
    /\ lpc = "returned" /\ ncrops = 3 /\ s_rows = 6 /\ t_rows = 4
    /\ n_loss_terms = 4
    /\ terms = << <<0, 1>>, <<0, 2>>, <<1, 0>>, <<1, 2>> >>

\* C8 as stated: with N < 2 and a teacher output of two chunks, no pair is
\* accumulated and the call ends in a failure instead of returning a loss.
C8_Original ==
    (lpc # "init" /\ ncrops < 2 /\ t_rows >= 2)
        => (n_loss_terms = 0 /\ lpc # "returned")

\* C8 amended: with N = 1 (one crop of b rows against the two global crops of b rows)
\* exactly one pair, teacher chunk 1 with student chunk 0, is accumulated, the divisor
\* is 1 and the loss is returned; the division by zero happens exactly when the student
\* output and the teacher output both split into a single chunk.
C8_DegenerateLoss ==
    /\ (lpc # "init" /\ ncrops = 1 /\ UnderContract)
         => /\ terms = << <<1, 0>> >>
            /\ n_loss_terms = 1
            /\ lpc = "returned"
    /\ (lpc = "ZeroDivisionError")
         <=> (lpc # "init" /\ ncrops >= 1 /\ Len(student_out) = 1 /\ Len(teacher_out) = 1)

\* C8 witness: N = 1, two rows against the two global crops of two rows each
C8_Witness ==
    /\ lpc = "returned" /\ ncrops = 1 /\ s_rows = 2 /\ t_rows = 4
    /\ teacher_out = <<2, 2>> /\ n_loss_terms = 1

(***************************************************************************)
(* MultiCropWrapper.forward.                                               *)
(* A crop is [len, rows]: its length (shape[-1]) and its batch rows; a row *)
(* of a batched tensor is [len, v]. Rows carry distinct values, so that a  *)
(* lost, repeated or misplaced row shows in the output.                    *)
(***************************************************************************)
\* the crop at position i of the list, of length l and batch size b
Crop(i, l, b) == [len |-> l, rows |-> [j \in 1..b |-> 10 * i + j]]

CropLists ==
    UNION {{[i \in 1..n |-> Crop(i, sh[i][1], sh[i][2])] :
               sh \in [1..n -> (1..MaxLen) \X (1..MaxBatch)]} : n \in 1..MaxCrops}

\* the backbone on one row of a batch of crops of length l (it acts row by row)
BackboneRow(r) == 100 * r.len + r.v

\* the head on one backbone feature (DINOHead without batch norm acts row by row)
HeadRow(f) == 2 * f + 1

\* torch.unique(..., return_counts=True)[1]: the counts of the sorted distinct values
unique_counts(lens) ==
    LET vals == {lens[i] : i \in DOMAIN lens}
        RECURSIVE Asc(_)
        Asc(S) == IF S = {} THEN <<>>
                  ELSE LET m == CHOOSE a \in S : \A b \in S : a <= b
                       IN  <<Cardinality({i \in DOMAIN lens : lens[i] = m})>> \o Asc(S \ {m})
    IN  Asc(vals)

\* torch.unique_consecutive(..., return_counts=True)[1]: the lengths of the runs
RECURSIVE unique_consecutive(_)
unique_consecutive(lens) ==
    IF lens = <<>> THEN <<>>
    ELSE LET rest == unique_consecutive(Tail(lens))
         IN  IF Len(lens) >= 2 /\ lens[2] = lens[1]
             THEN <<rest[1] + 1>> \o Tail(rest)
             ELSE <<1>> \o rest

\* a plausible slip: the counts are not accumulated
cumsum_none(c) == c

\* torch.cumsum(c, 0)
RECURSIVE cumsum(_)
cumsum(c) ==
    IF c = <<>> THEN <<>>
    ELSE LET init == cumsum(SubSeq(c, 1, Len(c) - 1))
         IN  Append(init, (IF init = <<>> THEN 0 ELSE init[Len(init)]) + c[Len(c)])

\* torch.cat of a list of crops along the batch axis: defined for a non-empty list
\* of crops of one length
CanCat(g) == g # <<>> /\ \A i \in DOMAIN g : g[i].len = g[1].len

RECURSIVE cat(_)
cat(g) ==
    IF g = <<>> THEN <<>>
    ELSE [j \in 1..Len(g[1].rows) |-> [len |-> g[1].len, v |-> g[1].rows[j]]] \o cat(Tail(g))

\* the loop of lines 59-67 from its i-th iteration on
RECURSIVE CropLoop(_, _, _, _, _, _)
CropLoop(xs, idx_crops, i, start_idx, out, grps) ==
    IF i > Len(idx_crops)
    THEN [ok |-> TRUE, output |-> out, groups |-> grps]
    ELSE LET end_idx == idx_crops[i]
             g == SubSeq(xs, start_idx + 1, end_idx)
             glens == [k \in DOMAIN g |-> g[k].len]
         IN  IF ~CanCat(g)
             THEN [ok |-> FALSE, output |-> out, groups |-> Append(grps, glens)]
             ELSE LET batch == cat(g)
                      _out == [k \in DOMAIN batch |-> BackboneRow(batch[k])]
                  IN  CropLoop(xs, idx_crops, i + 1, end_idx, out \o _out, Append(grps, glens))

\* lines 54-57
IdxCrops(xs) == cumsum(unique_consecutive([i \in DOMAIN xs |-> xs[i].len]))

\* MultiCropWrapper.forward on the list xs (a single tensor is the list of one crop)
forward(xs) ==
    LET r == CropLoop(xs, IdxCrops(xs), 1, 0, <<>>, <<>>)
    IN  [ok |-> r.ok,
         groups |-> r.groups,
         output |-> IF r.ok THEN [k \in DOMAIN r.output |-> HeadRow(r.output[k])] ELSE <<>>]

RestCrop == x = <<>> /\ groups = <<>> /\ output = <<>> /\ cpc = "rest"

InitCrop ==
    /\ x \in CropLists
    /\ groups = <<>>
    /\ output = <<>>
    /\ cpc = "init"

MultiCropForward ==
    /\ cpc = "init"
    /\ LET r == forward(x)
       IN  /\ groups' = r.groups
           /\ output' = r.output
           /\ cpc' = IF r.ok THEN "returned" ELSE "RuntimeError"
    /\ UNCHANGED x
    /\ UNCHANGED not_crop

NextCrop == MultiCropForward

(***************************************************************************)
(* Properties of MultiCropWrapper.forward.                                 *)
(***************************************************************************)
\* crops of equal length are adjacent in the list
LengthSorted(xs) ==
    \A i, k \in DOMAIN xs :
        (i < k /\ xs[i].len = xs[k].len) => \A j \in i..k : xs[j].len = xs[i].len

RECURSIVE SumBatch(_)
SumBatch(xs) == IF xs = <<>> THEN 0 ELSE Len(xs[1].rows) + SumBatch(Tail(xs))

\* adjacent crops of one length merged into one tensor
RECURSIVE MergeSameLength(_)
MergeSameLength(xs) ==
    IF Len(xs) <= 1 THEN xs
    ELSE LET rest == MergeSameLength(Tail(xs))
         IN  IF rest[1].len = xs[1].len
             THEN <<[len |-> xs[1].len, rows |-> xs[1].rows \o rest[1].rows]>> \o Tail(rest)
             ELSE <<xs[1]>> \o rest

\* the wrapper invoked once per crop, the results concatenated
RECURSIVE PerCrop(_)
PerCrop(xs) == IF xs = <<>> THEN <<>> ELSE forward(<<xs[1]>>).output \o PerCrop(Tail(xs))

\* the number of runs of equal consecutive lengths
Runs(xs) == 1 + Cardinality({i \in 1..(Len(xs) - 1) : xs[i].len # xs[i + 1].len})

\* C2: on a crop list with equal-length crops adjacent, forward returns as many rows as
\* the crops' batch sizes add up to, row k being the head of the backbone of row k of the
\* concatenated input, and the output is the same with same-length crops merged into one
\* tensor and with one invocation per crop.
C2_MultiCropOutput ==
    (cpc # "init" /\ LengthSorted(x))
        => /\ cpc = "returned"
           /\ Len(output) = SumBatch(x)
           /\ \A k \in 1..SumBatch(x) : output[k] = HeadRow(BackboneRow(cat(x)[k]))
           /\ forward(MergeSameLength(x)).ok
           /\ forward(MergeSameLength(x)).output = output
           /\ PerCrop(x) = output

\* C2 witness: two crops of length 2 batched together, then one of length 1
C2_Witness ==
    /\ cpc = "returned"
    /\ Len(x) = 3 /\ x[1].len = 2 /\ x[2].len = 2 /\ x[3].len = 1
    /\ Len(x[1].rows) = 2 /\ Len(x[2].rows) = 1
    /\ groups = << <<2, 2>>, <<1>> >>
    /\ Len(output) = 3 + Len(x[3].rows)

gcd[a \in Nat, b \in Nat] == IF b = 0 THEN a ELSE gcd[b, a % b]

\* n / d for d > 0, in lowest terms
frac[n \in Int, d \in Nat] ==
    LET g == gcd[IF n < 0 THEN -n ELSE n, d] IN [n |-> n \div g, d |-> d \div g]

Frac(n, d) == frac[n, d]

Fracs == [n : Int, d : Nat]

FracLess(a, b) == a.n * b.d < b.n * a.d

\* what a batch contributes to a step: loss.item() and the update that backward()
\* and the optimizer make of it (an Adam step on the student parameters)
Batches == {[loss |-> 9, upd |-> 100], [loss |-> 10, upd |-> 0], [loss |-> 11, upd |-> -200]}

\* the values weights_init_xavier / signal_model's own initialisation may leave
InitParams == {1000, 3000}

\* a plausible slip: the teacher keeps its own initialisation
load_state_dict_skipped(k, q) == k

\* line 274: teacher.load_state_dict(student.state_dict())
load_state_dict(k, q) == q

\* optimizer.step() of torch.optim.Adam(student.parameters()): the student moves by upd
AdamStep(q, upd) == q - upd

\* a plausible slip: the coefficients of the momentum rule exchanged
momentum_update_swapped(k, q) == (k * 4 + 996 * q) \div 1000

\* lines 340-342: param_k.data.mul_(m).add_((1 - m) * param_q.detach().data), m = 0.996
momentum_update(k, q) == (k * 996 + 4 * q) \div 1000

\* len(lr_schedule) = len(wd_schedule): cosine_scheduler(.., epochs, niter_per_ep)
\* yields epochs * niter_per_ep values
cosine_scheduler_len(epochs, niter_per_ep) == epochs * niter_per_ep

\* lines 158-162: linspace over the warmup epochs, then the constant tail
teacher_temp_schedule_len(warmup_teacher_temp_epochs, nepochs) ==
    warmup_teacher_temp_epochs + (nepochs - warmup_teacher_temp_epochs)

\* warmup_teacher_temp_epochs: 30 in run(), capped at nepochs so that the schedule of
\* a short run can be built (np.ones refuses a negative count)
WarmupTeacherTempEpochs(nepochs) == IF nepochs < 30 THEN nepochs ELSE 30

\* line 318
GlobalIt(len_dl, ep, bi) == len_dl * ep + bi

\* line 346
NewBest(whole_train_loss, lowest) == FracLess(whole_train_loss, lowest)

NoSnapshot == [epoch |-> 0, student |-> 0, teacher |-> 0]

RestRun ==
    /\ no_epoches = 0 /\ steps_per_epoch = 0 /\ epoch = 0 /\ batch_idx = 0 /\ it = 0
    /\ rpc = "rest" /\ student = 0 /\ teacher = 0 /\ train_loss = 0
    /\ lowest_train_loss = Frac(0, 1) /\ saved = NoSnapshot /\ means = <<>>
    /\ n_opt = 0 /\ n_ema = 0

\* run() entered: the two networks built, each with its own initial parameters
InitRun ==
    /\ no_epoches \in 1..MaxEpochs
    /\ steps_per_epoch \in 1..MaxStepsPerEpoch
    /\ student \in InitParams
    /\ teacher \in InitParams
    /\ epoch = 0 /\ batch_idx = 0 /\ it = 0
    /\ rpc = "setup"
    /\ train_loss = 0
    /\ lowest_train_loss = Frac(0, 1)
    /\ saved = NoSnapshot
    /\ means = <<>>
    /\ n_opt = 0 /\ n_ema = 0

\* lines 271-316: the teacher takes the student's parameters, the optimizer is built on
\* the student's parameters and stepped once without gradients, the first epoch begins
Setup ==
    /\ rpc = "setup"
    /\ teacher' = load_state_dict(teacher, student)
    /\ student' = AdamStep(student, 0)
    /\ lowest_train_loss' = Frac(10, 1)
    /\ epoch' = 1
    /\ train_loss' = 0
    /\ batch_idx' = 0
    /\ rpc' = "step"
    /\ UNCHANGED <<no_epoches, steps_per_epoch, it, saved, means, n_opt, n_ema>>
    /\ UNCHANGED not_run

\* lines 318-336: the schedules are read at it, the networks run, the loss is computed
\* with the epoch's teacher temperature, the optimizer steps the student
TrainStep ==
    /\ rpc = "step"
    /\ it' = GlobalIt(steps_per_epoch, epoch, batch_idx)
    /\ IF \/ it' >= cosine_scheduler_len(no_epoches, steps_per_epoch)
          \/ epoch >= teacher_temp_schedule_len(WarmupTeacherTempEpochs(no_epoches), no_epoches)
       THEN /\ rpc' = "IndexError"
            /\ UNCHANGED <<student, train_loss, n_opt>>
       ELSE \E b \in Batches :
            /\ train_loss' = train_loss + b.loss
            /\ student' = AdamStep(student, b.upd)
            /\ n_opt' = n_opt + 1
            /\ rpc' = "ema"
    /\ UNCHANGED <<no_epoches, steps_per_epoch, epoch, batch_idx, teacher,
                   lowest_train_loss, saved, means, n_ema>>
    /\ UNCHANGED not_run

\* lines 338-342, then the next batch of the epoch if there is one
MomentumUpdate ==
    /\ rpc = "ema"
    /\ teacher' = momentum_update(teacher, student)
    /\ n_ema' = n_ema + 1
    /\ IF batch_idx + 1 < steps_per_epoch
       THEN batch_idx' = batch_idx + 1 /\ rpc' = "step"
       ELSE batch_idx' = batch_idx /\ rpc' = "epoch_end"
    /\ UNCHANGED <<no_epoches, steps_per_epoch, epoch, it, student, train_loss,
                   lowest_train_loss, saved, means, n_opt>>
    /\ UNCHANGED not_run

\* lines 344-349, then the next epoch of range(1, no_epoches + 1) if there is one
EpochEnd ==
    /\ rpc = "epoch_end"
    /\ LET whole_train_loss == Frac(train_loss, batch_idx + 1)
       IN  /\ means' = Append(means, whole_train_loss)
           /\ IF NewBest(whole_train_loss, lowest_train_loss)
              THEN /\ lowest_train_loss' = whole_train_loss
                   /\ saved' = [epoch |-> epoch, student |-> student, teacher |-> teacher]
              ELSE UNCHANGED <<lowest_train_loss, saved>>
    /\ epoch' = epoch + 1
    /\ IF epoch + 1 > no_epoches
       THEN rpc' = "done" /\ UNCHANGED <<train_loss, batch_idx>>
       ELSE rpc' = "step" /\ train_loss' = 0 /\ batch_idx' = 0
    /\ UNCHANGED <<no_epoches, steps_per_epoch, it, student, teacher, n_opt, n_ema>>
    /\ UNCHANGED not_run

NextRun ==
    \/ Setup
    \/ TrainStep
    \/ MomentumUpdate
    \/ EpochEnd

(***************************************************************************)
(* Properties of the training loop.                                        *)
(***************************************************************************)
\* the number of training steps the loop has completed when a step begins
StepsCompleted == steps_per_epoch * (epoch - 1) + batch_idx

C5_Inv ==
    /\ (rpc = "step" /\ epoch = 1 /\ batch_idx = 0) => teacher = student
    /\ (rpc = "step") => (n_opt = StepsCompleted /\ n_ema = StepsCompleted)
    /\ (rpc = "ema") => (n_opt = n_ema + 1)
    /\ (rpc \in {"epoch_end", "done", "IndexError"}) => (n_opt = n_ema)

C5_Step ==
    (rpc # "setup") =>
        /\ (teacher' # teacher \/ n_ema' # n_ema \/ rpc = "ema")
             => /\ rpc = "ema"
                /\ n_ema' = n_ema + 1
                /\ teacher' = (teacher * 996 + 4 * student) \div 1000
                /\ student' = student
        /\ (student' # student \/ n_opt' # n_opt)
             => /\ rpc = "step" /\ rpc' = "ema"
                /\ n_opt' = n_opt + 1
                /\ teacher' = teacher

\* C5: when the first training step begins the teacher's parameters equal the student's;
\* from then on a teacher parameter changes only by teacher*m + (1-m)*student, once per
\* training step, after the step's optimizer step and on the student's values after it;
\* the optimizer step changes the student only.
C5_TeacherByMomentumOnly == []C5_Inv /\ [][C5_Step]_vars

\* C5 witness: the first step has moved the student from 3.000 to 2.900 and the momentum
\* rule has then moved the teacher from 3.000 to 2.999
C5_Witness ==
    /\ rpc \in {"step", "epoch_end"} /\ n_opt = 1 /\ n_ema = 1
    /\ student = 2900 /\ teacher = 2999

\* C6 as stated: after any epoch the persisted snapshot is the one of an epoch whose
\* mean loss is the lowest of the epochs so far (so one exists after the first epoch).
C6_BestCheckpoint ==
    (means # <<>>)
        => /\ saved.epoch \in 1..Len(means)
           /\ \A j \in 1..Len(means) : ~FracLess(means[j], means[saved.epoch])

\* C10 as stated: every step the loop executes reads the schedules inside their range,
\* and the loop never ends in an index failure.
C10_IndicesInRange ==
    /\ rpc # "IndexError"
    /\ (rpc = "step")
         => /\ GlobalIt(steps_per_epoch, epoch, batch_idx)
                  < cosine_scheduler_len(no_epoches, steps_per_epoch)
            /\ epoch < teacher_temp_schedule_len(WarmupTeacherTempEpochs(no_epoches), no_epoches)

(***************************************************************************)
(* The training step on cooperating processes: every process runs the loop *)
(* of run() on its own data and its own DINOLoss; update_center meets the  *)
(* other processes in dist.all_reduce.                                     *)
(***************************************************************************)
\* the cooperating processes; process p has rank p - 1
Procs == 1..world_size

\* total number of crops: 2 global crops + local_crops_number
local_crops_number == 8

frac_add[a \in Fracs, b \in Fracs] ==
    LET l == (a.d \div gcd[a.d, b.d]) * b.d
    IN  frac[a.n * (l \div a.d) + b.n * (l \div b.d), l]

FracAdd(a, b) == frac_add[a, b]

frac_mul[a \in Fracs, b \in Fracs] ==
    LET g1 == gcd[IF a.n < 0 THEN -a.n ELSE a.n, b.d]
        g2 == gcd[IF b.n < 0 THEN -b.n ELSE b.n, a.d]
    IN  frac[(a.n \div g1) * (b.n \div g2), (a.d \div g2) * (b.d \div g1)]

FracMul(a, b) == frac_mul[a, b]

\* a / k for an integer k > 0
FracDiv(a, k) == FracMul(a, Frac(1, k))

sum_rows[t \in Seq(Int)] == IF t = <<>> THEN 0 ELSE t[1] + sum_rows[Tail(t)]

\* line 195: torch.sum(teacher_output, dim=0)
SumRows(t) == sum_rows[t]

\* the teacher outputs a process may hold in a step: 2 * DistBatch rows
TeacherOutputs == {[i \in 1..(2 * DistBatch) |-> IF i = 1 THEN a ELSE 0] : a \in {0, 1}}

\* line 173: teacher_output - self.center (the argument of the sharpened softmax)
Centered(t, c) == [i \in DOMAIN t |-> FracAdd(Frac(t[i], 1), Frac(-c.n, c.d))]

\* a plausible slip: the local sum is used, the reduction is left out
all_reduce_local(p) == buf[p][1]

\* line 196: dist.all_reduce(batch_center) as process p sees it return: the sum of what
\* every process contributed to the round
RECURSIVE SumBuf(_)
SumBuf(S) == IF S = {} THEN 0 ELSE LET q == CHOOSE q \in S : TRUE IN buf[q][1] + SumBuf(S \ {q})

all_reduce(p) == SumBuf(Procs)

\* a plausible slip: the center is overwritten by the batch center's share
ema_center_reset(c, batch_center) == FracMul(batch_center, Frac(1, 10))

\* line 201 with center_momentum = 0.9
ema_center(c, batch_center) ==
    FracAdd(FracMul(c, Frac(9, 10)), FracMul(batch_center, Frac(1, 10)))

\* lines 197-198: the reduced sum divided by len(teacher_output) * world_size, then by
\* len(teacher_output) again
normalise(total, rows, ws) == FracDiv(FracDiv(Frac(total, 1), rows * ws), rows)

RestDist ==
    /\ world_size = 0 /\ d_no_epoches = 0 /\ d_steps_per_epoch = 0 /\ d_outputs = {}
    /\ dpc = <<>> /\ d_epoch = <<>> /\ d_batch_idx = <<>>
    /\ teacher_output = <<>> /\ centered = <<>> /\ center = <<>>
    /\ n_all_reduce = <<>> /\ n_center = <<>> /\ coll = <<>> /\ buf = <<>> /\ readers = {}

\* every process has passed dist.barrier() (line 32), built its DINOLoss with a zero
\* center (line 155) and stands before its first step (epoch 1, batch 0)
InitProcs ==
    /\ world_size \in 1..WorldSize
    /\ dpc = [p \in Procs |-> "step"]
    /\ d_epoch = [p \in Procs |-> 1]
    /\ d_batch_idx = [p \in Procs |-> 0]
    /\ teacher_output = [p \in Procs |-> <<>>]
    /\ centered = [p \in Procs |-> <<>>]
    /\ center = [p \in Procs |-> Frac(0, 1)]
    /\ n_all_reduce = [p \in Procs |-> 0]
    /\ n_center = [p \in Procs |-> 0]
    /\ coll = [p \in Procs |-> <<"barrier">>]
    /\ buf = [p \in Procs |-> <<>>]
    /\ readers = {}

InitDist ==
    /\ d_no_epoches \in 1..DistSchedule
    /\ d_steps_per_epoch \in 1..DistSchedule
    /\ d_no_epoches * d_steps_per_epoch <= DistSchedule
    /\ d_outputs = TeacherOutputs
    /\ InitProcs

\* the runs in which only the collective calls are followed: every run length, one
\* teacher output
InitColl ==
    /\ d_no_epoches \in 1..MaxEpochs
    /\ d_steps_per_epoch \in 1..MaxStepsPerEpoch
    /\ d_outputs = {[i \in 1..(2 * DistBatch) |-> 0]}
    /\ InitProcs

\* a plausible slip: only rank 0 enters the reduction
ReducesOnRankZero(p) == p = 1

\* line 187: forward calls update_center, and with it all_reduce, on every process
Reduces(p) == TRUE

\* Process p, lines 318-330 down to the all_reduce call of line 196: the schedules are
\* read at it, the teacher runs on the two global crops, DINOLoss.forward centers the
\* teacher output with the current center, accumulates the pair terms, divides, and
\* update_center sums the raw teacher output and enters the reduction.
EnterLoss(p) ==
    /\ p \in Procs
    /\ dpc[p] = "step"
    /\ IF \/ GlobalIt(d_steps_per_epoch, d_epoch[p], d_batch_idx[p])
                >= cosine_scheduler_len(d_no_epoches, d_steps_per_epoch)
          \/ d_epoch[p] >= teacher_temp_schedule_len(WarmupTeacherTempEpochs(d_no_epoches),
                                                     d_no_epoches)
       THEN /\ dpc' = [dpc EXCEPT ![p] = "IndexError"]
            /\ UNCHANGED <<teacher_output, centered, n_all_reduce, coll, buf>>
       ELSE \E t \in d_outputs :
            LET N == local_crops_number + 2
                r == PairLoop(chunk(Len(t), 2), chunk(N * DistBatch, N), 0, <<>>)
            IN  IF ~r.ok \/ Len(r.terms) = 0
                THEN /\ dpc' = [dpc EXCEPT ![p] = IF r.ok THEN "ZeroDivisionError"
                                                  ELSE "RuntimeError"]
                     /\ UNCHANGED <<teacher_output, centered, n_all_reduce, coll, buf>>
                ELSE /\ teacher_output' = [teacher_output EXCEPT ![p] = t]
                     /\ centered' = [centered EXCEPT ![p] = Centered(t, center[p])]
                     /\ IF Reduces(p)
                        THEN /\ buf' = [buf EXCEPT ![p] = Append(@, SumRows(t))]
                             /\ n_all_reduce' = [n_all_reduce EXCEPT ![p] = @ + 1]
                             /\ coll' = [coll EXCEPT ![p] = Append(@, "all_reduce")]
                             /\ dpc' = [dpc EXCEPT ![p] = "all_reduce"]
                        ELSE /\ dpc' = [dpc EXCEPT ![p] = "reduced"]
                             /\ UNCHANGED <<n_all_reduce, coll, buf>>
    /\ UNCHANGED <<world_size, d_no_epoches, d_steps_per_epoch, d_outputs, d_epoch,
                   d_batch_idx, center, n_center, readers>>
    /\ UNCHANGED not_dist

\* the loop of lines 311-317 moves on after a step
Advance(p) ==
    IF d_batch_idx[p] + 1 < d_steps_per_epoch
    THEN /\ d_batch_idx' = [d_batch_idx EXCEPT ![p] = @ + 1]
         /\ d_epoch' = d_epoch
         /\ dpc' = [dpc EXCEPT ![p] = "step"]
    ELSE /\ d_batch_idx' = [d_batch_idx EXCEPT ![p] = 0]
         /\ d_epoch' = [d_epoch EXCEPT ![p] = @ + 1]
         /\ dpc' = [dpc EXCEPT ![p] = IF d_epoch[p] + 1 > d_no_epoches THEN "done" ELSE "step"]

\* Process p, from the return of all_reduce (line 196) to the end of the step (line 342):
\* the reduction returns once every process has entered it; the center takes its EMA
\* step; the optimizer and the teacher's momentum update follow and the loop moves on.
LeaveReduce(p) ==
    /\ p \in Procs
    /\ dpc[p] \in {"all_reduce", "reduced"}
    /\ IF dpc[p] = "all_reduce"
       THEN /\ p \notin readers
            /\ \A q \in Procs : buf[q] # <<>>
            /\ LET rows == Len(teacher_output[p])
                   batch_center == normalise(all_reduce(p), rows, world_size)
               IN  center' = [center EXCEPT ![p] = ema_center(@, batch_center)]
            /\ IF readers \cup {p} = Procs
               THEN readers' = {} /\ buf' = [q \in Procs |-> Tail(buf[q])]
               ELSE readers' = readers \cup {p} /\ buf' = buf
       ELSE /\ LET rows == Len(teacher_output[p])
                   batch_center == normalise(SumRows(teacher_output[p]), rows, world_size)
               IN  center' = [center EXCEPT ![p] = ema_center(@, batch_center)]
            /\ UNCHANGED <<readers, buf>>
    /\ n_center' = [n_center EXCEPT ![p] = @ + 1]
    /\ teacher_output' = [teacher_output EXCEPT ![p] = <<>>]
    /\ centered' = [centered EXCEPT ![p] = <<>>]
    /\ Advance(p)
    /\ UNCHANGED <<world_size, d_no_epoches, d_steps_per_epoch, d_outputs, n_all_reduce, coll>>
    /\ UNCHANGED not_dist

Proc(p) == EnterLoss(p) \/ LeaveReduce(p)

NextDist == \E p \in 1..WorldSize : Proc(p)

(***************************************************************************)
(* Properties of the center and of the collective calls.                   *)
(***************************************************************************)
\* C3: processes that have made the same number of center updates hold the same center,
\* whatever teacher output each of them held locally in those steps.
C3_CenterConsistent ==
    \A p, q \in Procs : (n_center[p] = n_center[q]) => (center[p] = center[q])

\* C3 witness: two processes whose teacher outputs of the first step summed to 1
\* together (one held rows summing to 1, the other to 0), both after their update
C3_Witness ==
    /\ world_size = 2
    /\ n_center[1] = 1 /\ n_center[2] = 1
    /\ center[1] = Frac(1, 80) /\ center[2] = Frac(1, 80)

\* the training steps process p has completed, from its loop position
StepsDone(p) == d_steps_per_epoch * (d_epoch[p] - 1) + d_batch_idx[p]

IsPrefix(a, b) == Len(a) <= Len(b) /\ SubSeq(b, 1, Len(a)) = a

C4_Inv ==
    \A p \in Procs :
        /\ dpc[p] \in {"step", "all_reduce", "IndexError", "done"}
        /\ n_all_reduce[p] = StepsDone(p) + (IF dpc[p] = "all_reduce" THEN 1 ELSE 0)
        /\ coll[p] = <<"barrier">> \o [i \in 1..n_all_reduce[p] |-> "all_reduce"]
        /\ \A q \in Procs : IsPrefix(coll[p], coll[q]) \/ IsPrefix(coll[q], coll[p])

\* C4: a process is never past the loss of a step without having entered the
\* all-reduce, enters it once per step it completes, and issues no other collective call
\* inside a step, so that the processes' sequences of collective calls agree; a process
\* waiting in the all-reduce leaves it, and every process comes to the end of its loop.
C4_CollectiveDiscipline ==
    /\ []C4_Inv
    /\ \A p \in 1..WorldSize :
           (p \in Procs /\ dpc[p] = "all_reduce") ~> (p \notin Procs \/ dpc[p] # "all_reduce")
    /\ <>(\A p \in Procs : dpc[p] \in {"IndexError", "done"})

\* C4 witness: process 1 waits in the all-reduce of its second step for process 2,
\* which has not entered it yet
C4_Witness ==
    /\ world_size = 2
    /\ dpc[1] = "all_reduce" /\ n_all_reduce[1] = 2
    /\ dpc[2] = "step" /\ n_all_reduce[2] = 1

C7_Inv ==
    \A p \in Procs :
        /\ (n_center[p] = 0) => (center[p] = Frac(0, 1))
        /\ (dpc[p] = "all_reduce")
             => /\ centered[p] = [i \in DOMAIN teacher_output[p] |->
                                    FracAdd(Frac(teacher_output[p][i], 1),
                                            Frac(-center[p].n, center[p].d))]
                /\ n_center[p] = n_all_reduce[p] - 1
                /\ buf[p][Len(buf[p])] = SumRows(teacher_output[p])
        /\ (dpc[p] # "all_reduce") => (n_center[p] = n_all_reduce[p])

C7_Step ==
    \A p \in Procs :
        /\ (dpc[p] = "step" /\ dpc'[p] = "all_reduce")
             => /\ center'[p] = center[p]
                /\ centered'[p] = [i \in DOMAIN teacher_output'[p] |->
                                     FracAdd(Frac(teacher_output'[p][i], 1),
                                             Frac(-center[p].n, center[p].d))]
        /\ (center'[p] # center[p] \/ n_center'[p] # n_center[p])
             => /\ dpc[p] = "all_reduce"
                /\ n_center'[p] = n_center[p] + 1
                /\ LET rows == Len(teacher_output[p])
                   IN  center'[p] =
                           FracAdd(FracMul(center[p], Frac(9, 10)),
                                   Frac(SumBuf(Procs), 10 * rows * rows * world_size))

\* C7: the center is zero at construction; a compute call centers the teacher output
\* with the center as it stood when the call began and leaves it alone until the loss is
\* computed; the center then changes once, by the EMA of the call's raw teacher output
\* (reduced over the processes); nothing else writes it.
C7_CenterOrdering == []C7_Inv /\ [][C7_Step]_vars

\* C7 witness: the second call of process 1 has centered its teacher output (first row
\* 1) with the center 1/80 that the first call left
C7_Witness ==
    /\ world_size = 2
    /\ dpc[1] = "all_reduce" /\ n_center[1] = 1 /\ n_all_reduce[1] = 2
    /\ center[1] = Frac(1, 80)
    /\ centered[1][1] = Frac(79, 80)

(***************************************************************************)
(* The specifications.                                                     *)
(***************************************************************************)
InitSpecLoss == InitLoss /\ RestCrop /\ RestRun /\ RestDist

SpecLoss == InitSpecLoss /\ [][NextLoss]_vars

InitSpecCrop == InitCrop /\ RestLoss /\ RestRun /\ RestDist

SpecCrop == InitSpecCrop /\ [][NextCrop]_vars

InitSpecRun == InitRun /\ RestLoss /\ RestCrop /\ RestDist

SpecRun == InitSpecRun /\ [][NextRun]_vars

InitSpecDist == InitDist /\ RestLoss /\ RestCrop /\ RestRun

SpecDist == InitSpecDist /\ [][NextDist]_vars

InitSpecColl == InitColl /\ RestLoss /\ RestCrop /\ RestRun

SpecColl == InitSpecColl /\ [][NextDist]_vars

\* a process that can take a step of its loop takes it
FairSpecColl == SpecColl /\ \A p \in 1..WorldSize : WF_vars(Proc(p))

====
